---------------------------- MODULE Spec2Model ----------------------------
(***************************************************************************)
(* Model of the RFC 7807 / RFC 6901 extension layer:                       *)
(*   - fastapi/utils.py            build_from_pydantic_error,              *)
(*                                 is_body_allowed_for_status_code         *)
(*   - fastapi/middleware/error.py ErrorMiddleware.__call__                *)
(*   - fastapi/exception_handlers.py  http_exception_handler,              *)
(*                                 configure_problem_details               *)
(*                                                                         *)
(* Python strings are sequences of one-character strings, so that          *)
(* escaping, joining, slicing and splitting are computed character by      *)
(* character.  Python values that can occur as a loc segment are tagged    *)
(* records (SegStr, SegInt, SegBool, SegNone).                                   *)
(***************************************************************************)
EXTENDS Integers, Sequences, FiniteSets, TLC

(***************************************************************************)
(* Bounds of the model.                                                    *)
(***************************************************************************)
\* Longest loc drawn as input of a single call.
MaxLocLen == 3
\* Number of concurrent invocations in SpecConc.
NumCalls == 2
\* Most raw validation errors in one RequestValidationError.
MaxErrors == 2

(***************************************************************************)
(* Strings.                                                                *)
(***************************************************************************)
\* n copies of the character c.
Rep(c, n) == [i \in 1..n |-> c]

\* Concatenation f[lo] \o f[lo+1] \o ... \o f[hi] of a sequence of strings,
\* by halving (the nesting depth stays logarithmic for long strings).
RECURSIVE Flat(_, _, _)
Flat(f, lo, hi) ==
    IF lo > hi THEN << >>
    ELSE IF lo = hi THEN f[lo]
    ELSE LET mid == (lo + hi) \div 2
         IN  Flat(f, lo, mid) \o Flat(f, mid + 1, hi)

\* Python's s.replace(old, new) for a one-character old: every occurrence
\* of old becomes the string new, every other character is kept.
replace(s, old, new) ==
    Flat([i \in 1..Len(s) |-> IF s[i] = old THEN new ELSE <<s[i]>>], 1, Len(s))

\* Python's s.replace(<<o1, o2>>, new) for a two-character old with
\* o1 # o2: occurrences cannot overlap, so every position i with
\* s[i] = o1 and s[i+1] = o2 is one occurrence.
replace2(s, o1, o2, new) ==
    Flat([i \in 1..Len(s) |->
            IF s[i] = o1 /\ i < Len(s) /\ s[i + 1] = o2 THEN new
            ELSE IF s[i] = o2 /\ i > 1 /\ s[i - 1] = o1 THEN << >>
            ELSE <<s[i]>>], 1, Len(s))

\* Python's sep.join(parts).
join(sep, parts) ==
    Flat([i \in 1..Len(parts) |-> IF i = 1 THEN parts[i] ELSE sep \o parts[i]],
         1, Len(parts))

\* Python's s[:n].
Prefix(s, n) == SubSeq(s, 1, IF n < Len(s) THEN n ELSE Len(s))

\* Number of occurrences of the character c in s.
Count(s, c) == Cardinality({i \in 1..Len(s) : s[i] = c})

DigitChars == <<"0", "1", "2", "3", "4", "5", "6", "7", "8", "9">>

\* Base-10 digits of a natural number.
RECURSIVE NatToStr(_)
NatToStr(n) ==
    IF n < 10 THEN <<DigitChars[n + 1]>>
    ELSE NatToStr(n \div 10) \o <<DigitChars[(n % 10) + 1]>>

(***************************************************************************)
(* Python values that occur as segments of a loc.                          *)
(***************************************************************************)
SegStr(s)  == [t |-> "str",  s |-> s,     n |-> 0]
SegInt(n)  == [t |-> "int",  s |-> << >>, n |-> n]
SegBool(b) == [t |-> "bool", s |-> << >>, n |-> IF b THEN 1 ELSE 0]
SegNone   == [t |-> "none", s |-> << >>, n |-> 0]

\* str(seg), utils.py lines 93-97: both branches of the isinstance test
\* call str().
PyStr(seg) ==
    CASE seg.t = "str"  -> seg.s
      [] seg.t = "int"  -> IF seg.n < 0 THEN <<"-">> \o NatToStr(0 - seg.n)
                           ELSE NatToStr(seg.n)
      [] seg.t = "bool" -> IF seg.n = 1 THEN <<"T", "r", "u", "e">>
                           ELSE <<"F", "a", "l", "s", "e">>
      [] seg.t = "none" -> <<"N", "o", "n", "e">>

(***************************************************************************)
(* build_from_pydantic_error, utils.py lines 61-112.                       *)
(***************************************************************************)
MAX_POINTER_LENGTH == 2000

src_markers == { <<"b", "o", "d", "y">>, <<"j", "s", "o", "n">>,
                 <<"v", "a", "l", "u", "e">> }

Ellipsis == <<".", ".", ".">>

\* isinstance(seg, str) and seg in src_markers
IsMarker(seg) == seg.t = "str" /\ seg.s \in src_markers

\* A version of StartIndex that skips every leading marker, not only the
\* first segment.
RECURSIVE StartIndexAllLeading(_)
StartIndexAllLeading(l) ==
    IF Len(l) > 0 /\ IsMarker(l[1]) THEN 1 + StartIndexAllLeading(Tail(l)) ELSE 0

\* start_index = 1 if (isinstance(loc[0], str) and loc[0] in src_markers) else 0
StartIndex(l) == IF IsMarker(l[1]) THEN 1 ELSE 0

\* A version of _escape with the two replacements in the other order.
EscapeSlashFirst(segment) ==
    replace(replace(segment, "/", <<"~", "1">>), "~", <<"~", "0">>)

\* segment.replace("~", "~0").replace("/", "~1")
_escape(segment) == replace(replace(segment, "~", <<"~", "0">>), "/", <<"~", "1">>)

\* "/" + "/".join(parts)
JoinPointer(ps) == <<"/">> \o join(<<"/">>, ps)

\* A version of Truncate that compares with >= instead of >.
TruncateAtMax(p) ==
    IF Len(p) >= MAX_POINTER_LENGTH THEN Prefix(p, MAX_POINTER_LENGTH) \o Ellipsis
    ELSE p

\* if len(pointer) > MAX_POINTER_LENGTH: return pointer[:MAX] + "..."
Truncate(p) ==
    IF Len(p) > MAX_POINTER_LENGTH THEN Prefix(p, MAX_POINTER_LENGTH) \o Ellipsis
    ELSE p

\* The function as a whole, as its callers in exception_handlers.py use it.
build_from_pydantic_error(l) ==
    IF Len(l) = 0 THEN << >>
    ELSE LET si == StartIndex(l)
             ps == [i \in 1..(Len(l) - si) |-> _escape(PyStr(l[i + si]))]
         IN  IF Len(ps) = 0 THEN << >> ELSE Truncate(JoinPointer(ps))


(***************************************************************************)
(* State.                                                                  *)
(***************************************************************************)
VARIABLES
    \* --- invocations of build_from_pydantic_error, one per call id ---
    loc,          \* the caller's sequence object passed as loc
    loc_at_call,  \* the caller's copy of loc taken before the call
    pc,           \* position of each call in the function body
    start_index,  \* local start_index
    parts,        \* local list parts
    total_len,    \* local total_len
    k,            \* number of segments of loc[start_index:] consumed so far
    pointer,      \* local pointer
    result,       \* the returned string
    \* --- one request through ErrorMiddleware ---
    scope_type,   \* scope["type"]
    mw_debug,     \* self.debug
    mw_pc,        \* position of the middleware / wrapped app
    raised,       \* the exception the wrapped app raised (NoExc if none)
    sent,         \* messages passed to send, in order, with their sender
    log_count,    \* calls of logger.exception
    propagated,   \* the exception that left __call__ (NoExc if none)
    mw_problem,   \* local problem / response content
    \* --- one exception given to a registered handler ---
    h_pc,         \* position of the handler run
    h_cfg,        \* arguments of configure_problem_details
    h_exc,        \* the exception given to the handler
    h_resp        \* the response the handler returned

bvars == <<loc, loc_at_call, pc, start_index, parts, total_len, k, pointer, result>>
mvars == <<scope_type, mw_debug, mw_pc, raised, sent, log_count, propagated,
          mw_problem>>
hvars == <<h_pc, h_cfg, h_exc, h_resp>>
vars  == <<bvars, mvars, hvars>>

(***************************************************************************)
(* Inputs of build_from_pydantic_error.                                    *)
(***************************************************************************)
\* A segment that alone fills the pointer to exactly MAX_POINTER_LENGTH.
LongFit == SegStr(Rep("a", MAX_POINTER_LENGTH - 1))
\* A segment whose escaped form pushes the pointer one past the maximum,
\* with the cut falling between the "~" and the "1" of its escaped "/".
LongCut == SegStr(Rep("a", MAX_POINTER_LENGTH - 2) \o <<"/">>)

ShortSegs ==
    { SegStr(<<"b", "o", "d", "y">>), SegStr(<<"j", "s", "o", "n">>),
      SegStr(<<"v", "a", "l", "u", "e">>), SegStr(<<"x">>),
      SegStr(<<"~", "/">>), SegStr(<<"~", "1">>), SegStr(<< >>),
      SegInt(10), SegBool(TRUE), SegNone }

SeqsUpTo(S, n) == UNION { [1..m -> S] : m \in 0..n }

\* Locs of short segments, every combination up to MaxLocLen segments.
ShortLocs == SeqsUpTo(ShortSegs, MaxLocLen)

\* Locs around the maximum pointer length: an optional leading marker, one
\* long segment, then short segments.
LongLocs ==
    { m \o <<g>> \o r :
        m \in { << >>, <<SegStr(<<"b", "o", "d", "y">>)>> },
        g \in { LongFit, LongCut },
        r \in SeqsUpTo(ShortSegs, MaxLocLen - 2) }

Locs == ShortLocs \cup LongLocs

\* Inputs of the concurrent calls (the shapes of
\* test_concurrent_invocations_are_safe, and the early-return paths).
ConcLocs ==
    { << >>,
      <<SegStr(<<"b", "o", "d", "y">>)>>,
      <<SegStr(<<"a", "/", "b">>)>>,
      <<SegStr(<<"b", "o", "d", "y">>), SegStr(<<"a", "/", "b">>), SegInt(0)>>,
      <<SegStr(<<"b", "o", "d", "y">>), SegStr(<<"a", "/", "b">>), SegInt(1)>>,
      <<SegStr(<<"u">>), SegInt(2)>> }

NoExc == [kind |-> "none", msg |-> << >>]

NoProblem == [type |-> "", title |-> << >>, status |-> 0, detail |-> << >>]

BuilderIdle ==
    /\ loc = << >> /\ loc_at_call = << >> /\ pc = << >>
    /\ start_index = << >> /\ parts = << >> /\ total_len = << >>
    /\ k = << >> /\ pointer = << >> /\ result = << >>

MiddlewareIdle ==
    /\ scope_type = "none" /\ mw_debug = FALSE /\ mw_pc = "idle"
    /\ raised = NoExc /\ sent = << >> /\ log_count = 0 /\ propagated = NoExc
    /\ mw_problem = NoProblem

HandlerIdle ==
    /\ h_pc = "idle" /\ h_cfg = << >> /\ h_exc = << >> /\ h_resp = << >>

\* Calls 1..n are entered with the locs ls[1..n]; locals are not yet bound.
BuilderInit(ls) ==
    /\ loc = ls
    /\ loc_at_call = ls
    /\ pc = [c \in DOMAIN ls |-> "entry"]
    /\ start_index = [c \in DOMAIN ls |-> 0]
    /\ parts = [c \in DOMAIN ls |-> << >>]
    /\ total_len = [c \in DOMAIN ls |-> 0]
    /\ k = [c \in DOMAIN ls |-> 0]
    /\ pointer = [c \in DOMAIN ls |-> << >>]
    /\ result = [c \in DOMAIN ls |-> << >>]

Init ==
    /\ \E l \in Locs : BuilderInit(<<l>>)
    /\ MiddlewareIdle
    /\ HandlerIdle

InitConc ==
    /\ \E ls \in [1..NumCalls -> ConcLocs] : BuilderInit(ls)
    /\ MiddlewareIdle
    /\ HandlerIdle

(***************************************************************************)
(* Steps of one call c of build_from_pydantic_error.  All its variables    *)
(* are locals of the call; the module-level state of utils.py              *)
(* (_CLONED_TYPES_CACHE) is not touched by the function.                   *)
(***************************************************************************)
\* lines 77-78: if not loc: return ""
ReturnEmptyLoc(c) ==
    /\ pc[c] = "entry"
    /\ Len(loc[c]) = 0
    /\ result' = [result EXCEPT ![c] = << >>]
    /\ pc' = [pc EXCEPT ![c] = "done"]
    /\ UNCHANGED <<loc, loc_at_call, start_index, parts, total_len, k, pointer>>
    /\ UNCHANGED <<mvars, hvars>>

\* A version of StripMarker that removes the marker from the caller's list
\* (loc.pop(0)) instead of skipping it by index.
StripMarkerPop(c) ==
    /\ pc[c] = "entry"
    /\ Len(loc[c]) > 0
    /\ parts' = [parts EXCEPT ![c] = << >>]
    /\ loc' = [loc EXCEPT ![c] = IF IsMarker(loc[c][1]) THEN Tail(loc[c]) ELSE loc[c]]
    /\ start_index' = [start_index EXCEPT ![c] = 0]
    /\ total_len' = [total_len EXCEPT ![c] = 0]
    /\ pc' = [pc EXCEPT ![c] = "loop"]
    /\ UNCHANGED <<loc_at_call, k, pointer, result>>
    /\ UNCHANGED <<mvars, hvars>>

\* lines 81-84: parts = []; start_index = 1 if marker else 0
StripMarker(c) ==
    /\ pc[c] = "entry"
    /\ Len(loc[c]) > 0
    /\ parts' = [parts EXCEPT ![c] = << >>]
    /\ start_index' = [start_index EXCEPT ![c] = StartIndex(loc[c])]
    /\ total_len' = [total_len EXCEPT ![c] = 0]
    /\ pc' = [pc EXCEPT ![c] = "loop"]
    /\ UNCHANGED <<loc, loc_at_call, k, pointer, result>>
    /\ UNCHANGED <<mvars, hvars>>

\* A version of LoopSegment whose parts list is one list shared by all
\* calls (a module-level or default-argument list).
LoopSegmentShared(c) ==
    /\ pc[c] = "loop"
    /\ start_index[c] + k[c] < Len(loc[c])
    /\ LET seg == loc[c][start_index[c] + k[c] + 1]
           escaped == _escape(PyStr(seg))
       IN  /\ parts' = [d \in DOMAIN parts |-> Append(parts[d], escaped)]
           /\ total_len' = [total_len EXCEPT ![c] = total_len[c] + Len(escaped)]
    /\ k' = [k EXCEPT ![c] = k[c] + 1]
    /\ UNCHANGED <<loc, loc_at_call, pc, start_index, pointer, result>>
    /\ UNCHANGED <<mvars, hvars>>

\* lines 92-100: one iteration of  for seg in loc[start_index:]
LoopSegment(c) ==
    /\ pc[c] = "loop"
    /\ start_index[c] + k[c] < Len(loc[c])
    /\ LET seg == loc[c][start_index[c] + k[c] + 1]
           escaped == _escape(PyStr(seg))
       IN  /\ parts' = [parts EXCEPT ![c] = Append(parts[c], escaped)]
           /\ total_len' = [total_len EXCEPT ![c] = total_len[c] + Len(escaped)]
    /\ k' = [k EXCEPT ![c] = k[c] + 1]
    /\ UNCHANGED <<loc, loc_at_call, pc, start_index, pointer, result>>
    /\ UNCHANGED <<mvars, hvars>>

\* A version of ReturnNoParts without the  if not parts  test: the join of
\* no parts gives the bare "/".
ReturnNoPartsSlash(c) ==
    /\ pc[c] = "loop"
    /\ start_index[c] + k[c] >= Len(loc[c])
    /\ Len(parts[c]) = 0
    /\ pointer' = [pointer EXCEPT ![c] = JoinPointer(parts[c])]
    /\ result' = [result EXCEPT ![c] = JoinPointer(parts[c])]
    /\ pc' = [pc EXCEPT ![c] = "done"]
    /\ UNCHANGED <<loc, loc_at_call, start_index, parts, total_len, k>>
    /\ UNCHANGED <<mvars, hvars>>

\* lines 102-103: loop exhausted and  if not parts: return ""
ReturnNoParts(c) ==
    /\ pc[c] = "loop"
    /\ start_index[c] + k[c] >= Len(loc[c])
    /\ Len(parts[c]) = 0
    /\ result' = [result EXCEPT ![c] = << >>]
    /\ pc' = [pc EXCEPT ![c] = "done"]
    /\ UNCHANGED <<loc, loc_at_call, start_index, parts, total_len, k, pointer>>
    /\ UNCHANGED <<mvars, hvars>>

\* line 105: pointer = "/" + "/".join(parts)
Join(c) ==
    /\ pc[c] = "loop"
    /\ start_index[c] + k[c] >= Len(loc[c])
    /\ Len(parts[c]) > 0
    /\ pointer' = [pointer EXCEPT ![c] = JoinPointer(parts[c])]
    /\ pc' = [pc EXCEPT ![c] = "joined"]
    /\ UNCHANGED <<loc, loc_at_call, start_index, parts, total_len, k, result>>
    /\ UNCHANGED <<mvars, hvars>>

\* lines 108-112: truncate if too long, return
ReturnPointer(c) ==
    /\ pc[c] = "joined"
    /\ result' = [result EXCEPT ![c] = Truncate(pointer[c])]
    /\ pc' = [pc EXCEPT ![c] = "done"]
    /\ UNCHANGED <<loc, loc_at_call, start_index, parts, total_len, k, pointer>>
    /\ UNCHANGED <<mvars, hvars>>

\* One step of call c.
Step(c) ==
    \/ ReturnEmptyLoc(c)
    \/ StripMarker(c)
    \/ LoopSegment(c)
    \/ ReturnNoParts(c)
    \/ Join(c)
    \/ ReturnPointer(c)

\* A single call.
Next == Step(1)

Spec == Init /\ [][Next]_vars

\* NumCalls calls, their steps interleaved in every order.
NextConc == \E c \in 1..NumCalls : Step(c)

SpecConc == InitConc /\ [][NextConc]_vars

(***************************************************************************)
(* ErrorMiddleware.__call__, middleware/error.py lines 34-83.              *)
(*                                                                         *)
(* The wrapped app, the send channel and the logger are collaborators:     *)
(* the app may send any prefix of its own response and then return or      *)
(* raise; send records each message with its sender; logger.exception      *)
(* counts its calls.  The two imports of lines 46-54 succeed (both         *)
(* modules are imported by the package itself).                            *)
(***************************************************************************)
ScopeTypes == {"http", "websocket", "lifespan"}

\* Exception classes and their base classes (self included).
Bases(kind) ==
    CASE kind = "StarletteHTTPException" ->
            {"StarletteHTTPException", "Exception", "BaseException"}
      [] kind = "FastAPIHTTPException" ->
            {"FastAPIHTTPException", "StarletteHTTPException", "Exception",
             "BaseException"}
      [] kind = "RequestValidationError" ->
            {"RequestValidationError", "Exception", "BaseException"}
      [] kind = "WebSocketRequestValidationError" ->
            {"WebSocketRequestValidationError", "Exception", "BaseException"}
      [] kind = "ValueError" -> {"ValueError", "Exception", "BaseException"}
      [] kind = "KeyError" -> {"KeyError", "Exception", "BaseException"}
      [] kind = "CancelledError" -> {"CancelledError", "BaseException"}
      [] kind = "none" -> {}

isinstance(e, cls) == cls \in Bases(e.kind)

ExcKinds ==
    {"StarletteHTTPException", "FastAPIHTTPException", "RequestValidationError",
     "WebSocketRequestValidationError", "ValueError", "KeyError", "CancelledError"}

ExcMsgs == { <<"p", "w", "=", "1">>, <<"k">> }

\* What the wrapped app can raise.
Excs == { [kind |-> kd, msg |-> m] : kd \in ExcKinds, m \in ExcMsgs }

\* str(exc): the message, which KeyError renders as its repr.
ExcStr(e) == IF e.kind = "KeyError" THEN <<"'">> \o e.msg \o <<"'">> ELSE e.msg

InternalServerError == <<"I", "n", "t", "e", "r", "n", "a", "l", " ", "S", "e", "r", "v", "e", "r", " ", "E", "r", "r", "o", "r">>

\* The messages the wrapped app sends, in order, for each scope type.
AppMessages(st) ==
    CASE st = "http" ->
            << [by |-> "app", type |-> "http.response.start", status |-> 200,
                media_type |-> "application/json", body |-> NoProblem],
               [by |-> "app", type |-> "http.response.body", status |-> 0,
                media_type |-> "", body |-> NoProblem] >>
      [] st = "websocket" ->
            << [by |-> "app", type |-> "websocket.accept", status |-> 0,
                media_type |-> "", body |-> NoProblem],
               [by |-> "app", type |-> "websocket.send", status |-> 0,
                media_type |-> "", body |-> NoProblem] >>
      [] st = "lifespan" ->
            << [by |-> "app", type |-> "lifespan.startup.complete", status |-> 0,
                media_type |-> "", body |-> NoProblem] >>

InitMW ==
    /\ BuilderIdle
    /\ HandlerIdle
    /\ scope_type \in ScopeTypes
    /\ mw_debug \in BOOLEAN
    /\ mw_pc = "call"
    /\ raised = NoExc
    /\ sent = << >>
    /\ log_count = 0
    /\ propagated = NoExc
    /\ mw_problem = NoProblem

\* lines 37-38: a non-HTTP scope calls the app outside any try
CallAppPassthrough ==
    /\ mw_pc = "call"
    /\ scope_type # "http"
    /\ mw_pc' = "app_passthrough"
    /\ UNCHANGED <<scope_type, mw_debug, raised, sent, log_count, propagated,
                   mw_problem>>
    /\ UNCHANGED <<bvars, hvars>>

\* lines 41-42: an HTTP scope calls the app inside the try
CallAppGuarded ==
    /\ mw_pc = "call"
    /\ scope_type = "http"
    /\ mw_pc' = "app_guarded"
    /\ UNCHANGED <<scope_type, mw_debug, raised, sent, log_count, propagated,
                   mw_problem>>
    /\ UNCHANGED <<bvars, hvars>>

\* The wrapped app sends its next message.
AppSend ==
    /\ mw_pc \in {"app_passthrough", "app_guarded"}
    /\ Len(sent) < Len(AppMessages(scope_type))
    /\ sent' = Append(sent, AppMessages(scope_type)[Len(sent) + 1])
    /\ UNCHANGED <<scope_type, mw_debug, mw_pc, raised, log_count, propagated,
                   mw_problem>>
    /\ UNCHANGED <<bvars, hvars>>

\* The wrapped app returns; so does __call__ (line 39, or the end of the try).
AppReturn ==
    /\ mw_pc \in {"app_passthrough", "app_guarded"}
    /\ mw_pc' = "done"
    /\ UNCHANGED <<scope_type, mw_debug, raised, sent, log_count, propagated,
                   mw_problem>>
    /\ UNCHANGED <<bvars, hvars>>

\* line 38: the app raises in a non-HTTP scope; nothing catches it
AppRaisePassthrough(e) ==
    /\ mw_pc = "app_passthrough"
    /\ raised' = e
    /\ propagated' = e
    /\ mw_pc' = "done"
    /\ UNCHANGED <<scope_type, mw_debug, sent, log_count, mw_problem>>
    /\ UNCHANGED <<bvars, hvars>>

\* line 42: the app raises inside the try
AppRaiseGuarded(e) ==
    /\ mw_pc = "app_guarded"
    /\ raised' = e
    /\ mw_pc' = "raised"
    /\ UNCHANGED <<scope_type, mw_debug, sent, log_count, propagated, mw_problem>>
    /\ UNCHANGED <<bvars, hvars>>

\* line 43: except Exception  does not match a bare BaseException
NotCaught ==
    /\ mw_pc = "raised"
    /\ ~isinstance(raised, "Exception")
    /\ propagated' = raised
    /\ mw_pc' = "done"
    /\ UNCHANGED <<scope_type, mw_debug, raised, sent, log_count, mw_problem>>
    /\ UNCHANGED <<bvars, hvars>>

\* A version of Reraised that forgets RequestValidationError.
ReraisedHttpOnly(e) == isinstance(e, "StarletteHTTPException")

\* lines 56-60: the two isinstance tests that lead to  raise
Reraised(e) ==
    \/ isinstance(e, "StarletteHTTPException")
    \/ isinstance(e, "RequestValidationError")

\* lines 56-60: re-raise framework exceptions
Reraise ==
    /\ mw_pc = "raised"
    /\ isinstance(raised, "Exception")
    /\ Reraised(raised)
    /\ propagated' = raised
    /\ mw_pc' = "done"
    /\ UNCHANGED <<scope_type, mw_debug, raised, sent, log_count, mw_problem>>
    /\ UNCHANGED <<bvars, hvars>>

\* A version of Problem that puts str(exc) in detail whatever debug is.
ProblemAlwaysDetailed(debug, e) ==
    [type |-> "about:blank", title |-> InternalServerError, status |-> 500,
     detail |-> ExcStr(e)]

\* lines 67-77: the problem mapping
Problem(debug, e) ==
    [type |-> "about:blank", title |-> InternalServerError, status |-> 500,
     detail |-> IF debug THEN ExcStr(e) ELSE InternalServerError]

\* lines 63-81: log once, build the problem and the JSONResponse
LogAndBuild ==
    /\ mw_pc = "raised"
    /\ isinstance(raised, "Exception")
    /\ ~Reraised(raised)
    /\ log_count' = log_count + 1
    /\ mw_problem' = Problem(mw_debug, raised)
    /\ mw_pc' = "respond"
    /\ UNCHANGED <<scope_type, mw_debug, raised, sent, propagated>>
    /\ UNCHANGED <<bvars, hvars>>

\* line 83: the JSONResponse sends http.response.start
RespondStart ==
    /\ mw_pc = "respond"
    /\ sent' = Append(sent, [by |-> "mw", type |-> "http.response.start",
                             status |-> 500,
                             media_type |-> "application/problem+json",
                             body |-> NoProblem])
    /\ mw_pc' = "respond_body"
    /\ UNCHANGED <<scope_type, mw_debug, raised, log_count, propagated, mw_problem>>
    /\ UNCHANGED <<bvars, hvars>>

\* line 83: the JSONResponse sends http.response.body with the content
RespondBody ==
    /\ mw_pc = "respond_body"
    /\ sent' = Append(sent, [by |-> "mw", type |-> "http.response.body",
                             status |-> 0, media_type |-> "",
                             body |-> mw_problem])
    /\ mw_pc' = "done"
    /\ UNCHANGED <<scope_type, mw_debug, raised, log_count, propagated, mw_problem>>
    /\ UNCHANGED <<bvars, hvars>>

NextMW ==
    \/ CallAppPassthrough
    \/ CallAppGuarded
    \/ AppSend
    \/ AppReturn
    \/ \E e \in Excs : AppRaisePassthrough(e)
    \/ \E e \in Excs : AppRaiseGuarded(e)
    \/ NotCaught
    \/ Reraise
    \/ LogAndBuild
    \/ RespondStart
    \/ RespondBody

SpecMW == InitMW /\ [][NextMW]_vars

(***************************************************************************)
(* Exception handlers, exception_handlers.py.                              *)
(*                                                                         *)
(* One exception is handed to the handler registered for its class: the    *)
(* module-level handlers of lines 11-26, or, after                         *)
(* configure_problem_details(app, ...), the closures it registers          *)
(* (the validation handler always, the HTTP handler with                   *)
(* override_http_exceptions).  Response and JSONResponse are records of    *)
(* their constructor arguments; a Response built without content has no    *)
(* body.  Messages, kinds, contexts and headers are opaque strings.        *)
(***************************************************************************)
\* A version of is_body_allowed_for_status_code that forgets 205.
BodyAllowedWithout205(status_code) ==
    IF status_code.t = "none" THEN TRUE
    ELSE IF status_code.t = "str" /\ status_code.s \in
              { <<"d", "e", "f", "a", "u", "l", "t">>, <<"1", "X", "X">>, <<"2", "X", "X">>, <<"3", "X", "X">>, <<"4", "X", "X">>, <<"5", "X", "X">> }
    THEN TRUE
    ELSE ~(status_code.n < 200 \/ status_code.n \in {204, 304})

\* utils.py lines 40-54, for None, a patterned string or an int (int() of
\* an int is the int itself; numeric strings are not among the inputs).
is_body_allowed_for_status_code(status_code) ==
    IF status_code.t = "none" THEN TRUE
    ELSE IF status_code.t = "str" /\ status_code.s \in
              { <<"d", "e", "f", "a", "u", "l", "t">>, <<"1", "X", "X">>, <<"2", "X", "X">>, <<"3", "X", "X">>, <<"4", "X", "X">>, <<"5", "X", "X">> }
    THEN TRUE
    ELSE LET current_status_code == status_code.n
         IN  ~(current_status_code < 200 \/ current_status_code \in {204, 205, 304})

\* fastapi.encoders.jsonable_encoder on the values that occur here: a tuple
\* becomes a list, str, int and None stay, a list or dict is encoded
\* member by member.
EncodeLoc(l) == [py |-> "list", items |-> l.items]

jsonable_encoder(errs) ==
    [i \in 1..Len(errs) |->
        IF "loc" \in errs[i].keys
        THEN [errs[i] EXCEPT !.loc = EncodeLoc(errs[i].loc)]
        ELSE errs[i]]

PyTuple(items) == [py |-> "tuple", items |-> items]
PyList(items)  == [py |-> "list",  items |-> items]

\* dict.get(key, default) on an error record whose present keys are e.keys.
Get(e, key, default) == IF key \in e.keys THEN e[key] ELSE default

StatusCodes == {100, 199, 200, 203, 204, 205, 206, 303, 304, 305, 404, 500}

\* exc.detail: None, "", a message, a list, a dict with or without "type".
Details ==
    { [t |-> "none", truthy |-> FALSE, has_type |-> FALSE],
      [t |-> "str",  truthy |-> FALSE, has_type |-> FALSE],
      [t |-> "str",  truthy |-> TRUE,  has_type |-> FALSE],
      [t |-> "list", truthy |-> TRUE,  has_type |-> FALSE],
      [t |-> "dict", truthy |-> TRUE,  has_type |-> FALSE],
      [t |-> "dict", truthy |-> TRUE,  has_type |-> TRUE] }

HeaderValues == {"None", "WWW-Authenticate: Bearer"}

HttpExcs ==
    { [kind |-> "http", status_code |-> sc, detail |-> d, headers |-> hd,
       errors |-> << >>] :
        sc \in StatusCodes, d \in Details, hd \in HeaderValues }

\* Segments of the locs of raw validation errors.
ErrLocs ==
    { PyTuple(<< >>),
      PyTuple(<<SegStr(<<"b", "o", "d", "y">>), SegStr(<<"a", "/", "b">>)>>),
      PyTuple(<<SegStr(<<"q">>), SegInt(0)>>) }

\* Raw error records as exc.errors() returns them; keys lists the keys
\* that are present ("ctx" is optional, and a record may lack "loc").
RawErrors ==
    { [keys |-> {"loc", "msg", "type", "ctx"}, loc |-> l, msg |-> "Field required",
       type |-> "missing", ctx |-> "ctx"] : l \in ErrLocs }
    \cup
    { [keys |-> {"loc", "msg", "type"}, loc |-> l, msg |-> "Input should be a valid integer",
       type |-> "int_parsing", ctx |-> "None"] : l \in ErrLocs \ {PyTuple(<< >>)} }
    \cup
    { [keys |-> {"msg", "type"}, loc |-> PyTuple(<< >>), msg |-> "Value error",
       type |-> "value_error", ctx |-> "None"] }

ValidationExcs ==
    { [kind |-> "validation", status_code |-> 0,
       detail |-> [t |-> "none", truthy |-> FALSE, has_type |-> FALSE],
       headers |-> "None", errors |-> errs] :
        errs \in SeqsUpTo(RawErrors, MaxErrors) }

Configs ==
    { [configured |-> cf, legacy_mode |-> lm, override_http_exceptions |-> ov,
       debug |-> db] :
        cf \in BOOLEAN, lm \in BOOLEAN, ov \in BOOLEAN, db \in BOOLEAN }

NoResponse ==
    [by |-> "none", class |-> "none", status_code |-> 0, headers |-> "None",
     has_body |-> FALSE, media_type |-> "", content |-> << >>]

InitH ==
    /\ BuilderIdle
    /\ MiddlewareIdle
    /\ h_pc = "raised"
    /\ h_cfg \in Configs
    /\ h_exc \in HttpExcs \cup ValidationExcs
    /\ h_resp = NoResponse

\* Response(status_code=..., headers=...): no content, no body.
EmptyResponse(by, exc) ==
    [by |-> by, class |-> "Response", status_code |-> exc.status_code,
     headers |-> exc.headers, has_body |-> FALSE, media_type |-> "",
     content |-> << >>]

JSONResponse(by, content, status_code, headers, media_type) ==
    [by |-> by, class |-> "JSONResponse", status_code |-> status_code,
     headers |-> headers, has_body |-> TRUE, media_type |-> media_type,
     content |-> content]

\* lines 11-17
http_exception_handler ==
    /\ h_pc = "raised"
    /\ h_exc.kind = "http"
    /\ ~(h_cfg.configured /\ h_cfg.override_http_exceptions)
    /\ h_resp' =
          IF ~is_body_allowed_for_status_code(SegInt(h_exc.status_code))
          THEN EmptyResponse("http_exception_handler", h_exc)
          ELSE JSONResponse("http_exception_handler",
                            [detail |-> h_exc.detail], h_exc.status_code,
                            h_exc.headers, "application/json")
    /\ h_pc' = "responded"
    /\ UNCHANGED <<h_cfg, h_exc>>
    /\ UNCHANGED <<bvars, mvars>>

\* lines 107-128: the content of the Problem Details body of an HTTP error
HttpProblemContent(cfg, exc) ==
    IF exc.detail.t = "dict" /\ exc.detail.has_type
    THEN [passthrough |-> TRUE, type |-> "", title |-> "", status |-> 0,
          detail |-> exc.detail]
    ELSE IF cfg.legacy_mode /\ exc.detail.t = "list"
    THEN [passthrough |-> FALSE, type |-> "type_base/http-error",
          title |-> "status_code", status |-> exc.status_code,
          detail |-> exc.detail]
    ELSE [passthrough |-> FALSE, type |-> "type_base/http-error",
          title |-> IF exc.detail.truthy THEN "str(detail)" ELSE "HTTP Error",
          status |-> exc.status_code,
          detail |-> IF exc.detail.truthy
                     THEN [t |-> "str", truthy |-> TRUE, has_type |-> FALSE]
                     ELSE [t |-> "none", truthy |-> FALSE, has_type |-> FALSE]]

\* lines 102-135
_http_exc_handler ==
    /\ h_pc = "raised"
    /\ h_exc.kind = "http"
    /\ h_cfg.configured /\ h_cfg.override_http_exceptions
    /\ h_resp' =
          IF ~is_body_allowed_for_status_code(SegInt(h_exc.status_code))
          THEN EmptyResponse("_http_exc_handler", h_exc)
          ELSE JSONResponse("_http_exc_handler",
                            HttpProblemContent(h_cfg, h_exc), h_exc.status_code,
                            h_exc.headers, "application/problem+json")
    /\ h_pc' = "responded"
    /\ UNCHANGED <<h_cfg, h_exc>>
    /\ UNCHANGED <<bvars, mvars>>

\* lines 20-26
request_validation_exception_handler ==
    /\ h_pc = "raised"
    /\ h_exc.kind = "validation"
    /\ ~h_cfg.configured
    /\ h_resp' = JSONResponse("request_validation_exception_handler",
                              [detail |-> jsonable_encoder(h_exc.errors)],
                              422, "None", "application/json")
    /\ h_pc' = "responded"
    /\ UNCHANGED <<h_cfg, h_exc>>
    /\ UNCHANGED <<bvars, mvars>>

\* lines 55-66: one normalized entry per raw error
Normalize(err) ==
    LET l == Get(err, "loc", PyList(<< >>))
        ptr == build_from_pydantic_error(l.items)
    IN  [keys |-> {"loc", "msg", "type", "ctx", "pointer"},
         loc |-> l,
         msg |-> Get(err, "msg", "None"),
         type |-> Get(err, "type", "None"),
         ctx |-> Get(err, "ctx", "None"),
         pointer |-> ptr]

\* A version of _build_validation_problem that leaves out the errors that
\* have no loc.
BuildValidationProblemSkipNoLoc(cfg, errs) ==
    LET normalized == SelectSeq([i \in 1..Len(errs) |-> Normalize(errs[i])],
                                LAMBDA n : Len(n.loc.items) > 0)
    IN  [type |-> "type_base/validation",
         title |-> "Request validation error",
         status |-> 422,
         legacy_detail |-> cfg.legacy_mode,
         detail |-> IF cfg.legacy_mode THEN jsonable_encoder(errs) ELSE << >>,
         errors |-> jsonable_encoder(normalized),
         debug_hint |-> IF cfg.debug THEN "str(exc)" ELSE "absent"]

\* lines 52-88.  detail is the encoded raw errors in legacy mode and the
\* fixed sentence otherwise (legacy_detail tells which).
_build_validation_problem(cfg, errs) ==
    LET raw_errors == errs
        normalized == [i \in 1..Len(raw_errors) |-> Normalize(raw_errors[i])]
    IN  [type |-> "type_base/validation",
         title |-> "Request validation error",
         status |-> 422,
         legacy_detail |-> cfg.legacy_mode,
         detail |-> IF cfg.legacy_mode THEN jsonable_encoder(raw_errors) ELSE << >>,
         errors |-> jsonable_encoder(normalized),
         debug_hint |-> IF cfg.debug THEN "str(exc)" ELSE "absent"]

\* lines 90-96
_request_validation_handler ==
    /\ h_pc = "raised"
    /\ h_exc.kind = "validation"
    /\ h_cfg.configured
    /\ h_resp' = JSONResponse("_request_validation_handler",
                              _build_validation_problem(h_cfg, h_exc.errors),
                              422, "None", "application/problem+json")
    /\ h_pc' = "responded"
    /\ UNCHANGED <<h_cfg, h_exc>>
    /\ UNCHANGED <<bvars, mvars>>

NextH ==
    \/ http_exception_handler
    \/ _http_exc_handler
    \/ request_validation_exception_handler
    \/ _request_validation_handler

SpecH == InitH /\ [][NextH]_vars

(***************************************************************************)
(* Properties of build_from_pydantic_error.                                *)
(***************************************************************************)
\* Python's s.split(sep) for a one-character sep.
split(s, sep) ==
    LET P == {i \in 1..Len(s) : s[i] = sep}
        n == Cardinality(P)
        pos(j) == IF j = 0 THEN 0
                  ELSE IF j = n + 1 THEN Len(s) + 1
                  ELSE CHOOSE i \in P : Cardinality({x \in P : x < i}) = j - 1
    IN  [j \in 1..(n + 1) |-> SubSeq(s, pos(j - 1) + 1, pos(j) - 1)]

\* RFC 6901 decoding of one reference token: "~1" to "/", then "~0" to "~".
unescape(tok) == replace2(replace2(tok, "~", "1", <<"/">>), "~", "0", <<"~">>)

\* The reference tokens of a pointer: the pieces after each "/".
Tokens(p) == Tail(split(p, "/"))

IsMarkerText(seg) ==
    /\ seg.t = "str"
    /\ \/ seg.s = <<"b", "o", "d", "y">>
       \/ seg.s = <<"j", "s", "o", "n">>
       \/ seg.s = <<"v", "a", "l", "u", "e">>

\* The segments of l that remain after removal of a leading source marker.
Remaining(l) == IF Len(l) > 0 /\ IsMarkerText(l[1]) THEN Tail(l) ELSE l

\* Their texts.
Texts(l) == [i \in 1..Len(Remaining(l)) |-> PyStr(Remaining(l)[i])]

HasTildeAndSlash(txt) == Count(txt, "~") > 0 /\ Count(txt, "/") > 0

\* C1: when the pointer is not truncated, the output holds exactly one "/"
\* per remaining segment, and splitting it at "/" and unescaping each piece
\* ("~1" to "/", then "~0" to "~") gives back the texts of the remaining
\* segments in order.
C1_EscapeRoundTrip ==
    \A c \in DOMAIN pc :
        (pc[c] = "done" /\ Len(pointer[c]) <= MAX_POINTER_LENGTH) =>
            /\ Count(result[c], "/") = Len(Remaining(loc_at_call[c]))
            /\ Len(Tokens(result[c])) = Len(Texts(loc_at_call[c]))
            /\ \A i \in 1..Len(Texts(loc_at_call[c])) :
                  unescape(Tokens(result[c])[i]) = Texts(loc_at_call[c])[i]

\* A call has returned an untruncated pointer of two or more segments, one
\* of which holds both "~" and "/".
C1_Witness ==
    \E c \in DOMAIN pc :
        /\ pc[c] = "done"
        /\ Len(pointer[c]) <= MAX_POINTER_LENGTH
        /\ Len(Texts(loc_at_call[c])) >= 2
        /\ \E i \in 1..Len(Texts(loc_at_call[c])) :
              HasTildeAndSlash(Texts(loc_at_call[c])[i])

\* C2: a joined pointer longer than MAX_POINTER_LENGTH is returned as its
\* first MAX_POINTER_LENGTH characters followed by "..." (length
\* MAX_POINTER_LENGTH + 3); a joined pointer of at most MAX_POINTER_LENGTH
\* characters is returned unchanged; no result is longer than
\* MAX_POINTER_LENGTH + 3.
C2_Truncation ==
    \A c \in DOMAIN pc :
        pc[c] = "done" =>
            /\ Len(pointer[c]) > MAX_POINTER_LENGTH =>
                  /\ Len(result[c]) = MAX_POINTER_LENGTH + 3
                  /\ \A i \in 1..MAX_POINTER_LENGTH : result[c][i] = pointer[c][i]
                  /\ \A i \in 1..3 : result[c][MAX_POINTER_LENGTH + i] = "."
            /\ Len(pointer[c]) <= MAX_POINTER_LENGTH => result[c] = pointer[c]
            /\ Len(result[c]) <= MAX_POINTER_LENGTH + 3

\* A call has returned a truncated pointer.
C2_Witness ==
    \E c \in DOMAIN pc :
        /\ pc[c] = "done"
        /\ Len(pointer[c]) > MAX_POINTER_LENGTH
        /\ Len(result[c]) = MAX_POINTER_LENGTH + 3

\* C3: the number of segments dropped is 0 or 1; it is 1 exactly when the
\* first segment is a string equal to "body", "json" or "value"; every
\* later segment, marker or not, is kept as a pointer segment in order.
C3_OnlyFirstMarkerDropped ==
    \A c \in DOMAIN pc :
        pc[c] = "done" =>
            LET l == loc_at_call[c]
                dropped == Len(l) - Len(parts[c])
            IN  /\ dropped \in {0, 1}
                /\ dropped = 1 <=> (Len(l) > 0 /\ IsMarkerText(l[1]))
                /\ \A i \in 1..Len(parts[c]) :
                      unescape(parts[c][i]) = PyStr(l[i + dropped])

\* A call on a loc whose first two segments are both markers has returned
\* with only the first dropped.
C3_Witness ==
    \E c \in DOMAIN pc :
        /\ pc[c] = "done"
        /\ Len(loc_at_call[c]) >= 3
        /\ IsMarkerText(loc_at_call[c][1])
        /\ IsMarkerText(loc_at_call[c][2])
        /\ Len(parts[c]) = Len(loc_at_call[c]) - 1

\* C4: the result is the empty string exactly when loc is empty or is one
\* source marker (for those inputs it is not the bare "/"); whenever a
\* segment remains, be it the empty string, the result starts with "/".
C4_EmptyIffNoSegments ==
    \A c \in DOMAIN pc :
        pc[c] = "done" =>
            LET l == loc_at_call[c]
                none == Len(l) = 0 \/ (Len(l) = 1 /\ IsMarkerText(l[1]))
            IN  /\ result[c] = << >> <=> none
                /\ none => result[c] # <<"/">>
                /\ ~none => (Len(result[c]) >= 1 /\ result[c][1] = "/")

\* A call on a loc that is exactly one source marker has returned "".
C4_Witness ==
    \E c \in DOMAIN pc :
        /\ pc[c] = "done"
        /\ Len(loc_at_call[c]) = 1
        /\ IsMarkerText(loc_at_call[c][1])
        /\ result[c] = << >>

\* C5: under every interleaving of the steps of concurrent calls, each
\* call returns what the function gives for its own input alone.
C5_ConcurrentCallsIndependent ==
    \A c \in DOMAIN pc :
        pc[c] = "done" => result[c] = build_from_pydantic_error(loc_at_call[c])

\* All concurrent calls have returned, on pairwise distinct inputs, with
\* pairwise distinct non-empty results.
C5_Witness ==
    /\ Cardinality(DOMAIN pc) >= 2
    /\ \A c \in DOMAIN pc : pc[c] = "done" /\ result[c] # << >>
    /\ \A c, d \in DOMAIN pc :
          c # d => (loc_at_call[c] # loc_at_call[d] /\ result[c] # result[d])

\* C6: the sequence passed as loc is the same before, during and after the
\* call, on every path through the function.
C6_LocUnchanged ==
    \A c \in DOMAIN pc : loc[c] = loc_at_call[c]

\* A call whose loc starts with a marker and that took the truncated
\* return has finished.
C6_Witness ==
    \E c \in DOMAIN pc :
        /\ pc[c] = "done"
        /\ Len(loc_at_call[c]) > 0
        /\ IsMarkerText(loc_at_call[c][1])
        /\ Len(pointer[c]) > MAX_POINTER_LENGTH
        /\ Len(loc[c]) = Len(loc_at_call[c])

(***************************************************************************)
(* Properties of ErrorMiddleware.                                          *)
(***************************************************************************)
\* The messages the middleware itself passed to send.
MwMessages == SelectSeq(sent, LAMBDA m : m.by = "mw")

\* An Exception that is neither an HTTPException nor a RequestValidationError.
Unhandled(e) ==
    /\ isinstance(e, "Exception")
    /\ ~isinstance(e, "StarletteHTTPException")
    /\ ~isinstance(e, "RequestValidationError")

\* C7: the middleware logs or sends only for an unhandled Exception in an
\* http scope; there it logs exactly once, sends its 500 response and lets
\* nothing propagate; in every other raising case the exception leaves
\* __call__ unchanged with nothing logged and nothing sent by the middleware.
C7_CatchAllOnlyForUnhandledHttp ==
    /\ log_count <= 1
    /\ (log_count > 0 \/ Len(MwMessages) > 0) =>
          (scope_type = "http" /\ raised # NoExc /\ Unhandled(raised))
    /\ raised = NoExc => propagated = NoExc
    /\ (mw_pc = "done" /\ raised # NoExc) =>
          IF scope_type = "http" /\ Unhandled(raised)
          THEN /\ log_count = 1
               /\ propagated = NoExc
               /\ Len(MwMessages) = 2
               /\ MwMessages[1].type = "http.response.start"
               /\ MwMessages[1].status = 500
               /\ MwMessages[2].type = "http.response.body"
               /\ MwMessages[2].body.status = 500
          ELSE /\ propagated = raised
               /\ log_count = 0
               /\ Len(MwMessages) = 0

\* An http request whose app raised a ValueError has been answered by the
\* middleware, and nothing propagated.
C7_Witness ==
    /\ mw_pc = "done"
    /\ scope_type = "http"
    /\ raised.kind = "ValueError"
    /\ log_count = 1
    /\ Len(MwMessages) = 2
    /\ propagated = NoExc

\* C8: with debug off every body the middleware sends is the same fixed
\* mapping, whatever the exception; with debug on only detail differs and
\* is str(exc).
C8_BodyFixedUnlessDebug ==
    \A i \in 1..Len(sent) :
        (sent[i].by = "mw" /\ sent[i].type = "http.response.body") =>
            /\ sent[i].body.type = "about:blank"
            /\ sent[i].body.title = <<"I", "n", "t", "e", "r", "n", "a", "l", " ", "S", "e", "r", "v", "e", "r", " ", "E", "r", "r", "o", "r">>
            /\ sent[i].body.status = 500
            /\ sent[i].body.detail =
                  IF mw_debug THEN ExcStr(raised)
                  ELSE <<"I", "n", "t", "e", "r", "n", "a", "l", " ", "S", "e", "r", "v", "e", "r", " ", "E", "r", "r", "o", "r">>

\* With debug off, the middleware has sent a body for an exception whose
\* text is not the generic detail.
C8_Witness ==
    /\ ~mw_debug
    /\ Len(raised.msg) > 0
    /\ raised.msg # <<"I", "n", "t", "e", "r", "n", "a", "l", " ", "S", "e", "r", "v", "e", "r", " ", "E", "r", "r", "o", "r">>
    /\ \E i \in 1..Len(sent) : sent[i].by = "mw" /\ sent[i].type = "http.response.body"

(***************************************************************************)
(* Properties of the exception handlers.                                   *)
(***************************************************************************)
\* C9: for an HTTPException with integer status s, either HTTP handler
\* returns a body-less Response exactly when s < 200 or s is 204, 205 or
\* 304, and a JSONResponse with a body otherwise; the response has status
\* s and the exception's headers in both cases.
C9_BodyGatedByStatus ==
    (h_pc = "responded" /\ h_exc.kind = "http") =>
        LET s == h_exc.status_code
            bodyless == s < 200 \/ s = 204 \/ s = 205 \/ s = 304
        IN  /\ h_resp.by \in {"http_exception_handler", "_http_exc_handler"}
            /\ h_resp.has_body <=> ~bodyless
            /\ bodyless => h_resp.class = "Response"
            /\ ~bodyless => h_resp.class = "JSONResponse"
            /\ h_resp.status_code = s
            /\ h_resp.headers = h_exc.headers

\* The overriding handler has answered a 205 that carries headers with a
\* body-less response.
C9_Witness ==
    /\ h_pc = "responded"
    /\ h_exc.kind = "http"
    /\ h_exc.status_code = 205
    /\ h_exc.headers # "None"
    /\ h_resp.by = "_http_exc_handler"
    /\ ~h_resp.has_body

\* C10: the configured validation handler answers 422 with a body whose
\* status is 422 and whose errors list has one entry per raw error, in
\* order, each with that error's loc, msg, type and ctx and the pointer
\* built from that error's loc ("" when the record has no loc), in both
\* legacy modes; type and title do not depend on legacy_mode either.
C10_ValidationProblem ==
    (h_pc = "responded" /\ h_resp.by = "_request_validation_handler") =>
        LET raw == h_exc.errors
            body == h_resp.content
        IN  /\ h_resp.status_code = 422
            /\ body.status = 422
            /\ body.type = "type_base/validation"
            /\ body.title = "Request validation error"
            /\ Len(body.errors) = Len(raw)
            /\ \A i \in 1..Len(raw) :
                  LET e == body.errors[i]
                      has_loc == "loc" \in raw[i].keys
                  IN  /\ e.loc.items = (IF has_loc THEN raw[i].loc.items ELSE << >>)
                      /\ e.msg = raw[i].msg
                      /\ e.type = raw[i].type
                      /\ e.ctx = (IF "ctx" \in raw[i].keys THEN raw[i].ctx ELSE "None")
                      /\ e.pointer = (IF has_loc
                                      THEN build_from_pydantic_error(raw[i].loc.items)
                                      ELSE << >>)

\* The configured handler, legacy mode off, has answered two errors: the
\* first without a loc, the second with a loc that needs escaping.
C10_Witness ==
    /\ h_pc = "responded"
    /\ h_resp.by = "_request_validation_handler"
    /\ ~h_cfg.legacy_mode
    /\ Len(h_exc.errors) = 2
    /\ "loc" \notin h_exc.errors[1].keys
    /\ "loc" \in h_exc.errors[2].keys
    /\ Len(h_resp.content.errors) = 2
    /\ h_resp.content.errors[2].pointer = <<"/", "a", "~", "1", "b">>

\* The positions in sent of the http.response.start messages.
ResponseStarts == {i \in 1..Len(sent) : sent[i].type = "http.response.start"}

\* C11: over one HTTP request at most one http.response.start is passed to
\* send, and no message of the middleware's 500 response follows a
\* response start sent by the wrapped app.
C11_AtMostOneResponseStart ==
    scope_type = "http" =>
        /\ Cardinality(ResponseStarts) <= 1
        /\ \A i, j \in 1..Len(sent) :
              (i < j /\ sent[i].by = "app" /\ sent[i].type = "http.response.start")
                  => sent[j].by # "mw"

=============================================================================
